---- MODULE Spec2Model ----
(***************************************************************************)
(* A model of prd (src/index.ts): the URL parser parseGitHubUrl, the reply *)
(* extraction of generateTitleAndDescription, and the driver main with its *)
(* calls to the source host (octokit) and to the text-generation service.  *)
(* Strings are sequences of one-character strings.                         *)
(***************************************************************************)
EXTENDS Integers, Sequences, FiniteSets, TLC

(***************************************************************************)
(* Strings                                                                 *)
(***************************************************************************)
Digits == <<"0", "1", "2", "3", "4", "5", "6", "7", "8", "9">>

DigitChars == {Digits[k] : k \in 1..10}

DigitVal(c) == (CHOOSE k \in 1..10 : Digits[k] = c) - 1

SetMin(S) == CHOOSE x \in S : \A y \in S : x <= y

SetMax(S) == CHOOSE x \in S : \A y \in S : x >= y

\* s.substring(i-1, j-1) in JS terms: the characters at 1-based positions i..j-1
Slice(s, i, j) == [k \in 1..(j - i) |-> s[i + k - 1]]

\* lit occurs in s at position i
MatchAt(s, i, lit) ==
    /\ i >= 1
    /\ i + Len(lit) - 1 <= Len(s)
    /\ \A k \in 1..Len(lit) : s[i + k - 1] = lit[k]

\* the character classes of the two URL regexes
InClass(c, cls) ==
    CASE cls = "notslash" -> c # "/"
      [] cls = "digit"    -> c \in DigitChars
      [] cls = "notqh"    -> c \notin {"?", "#"}

\* a greedy run cls+ starting at i ends just before RunEnd (RunEnd = i: no match)
RunEnd(s, i, cls) ==
    LET bad == {k \in i..Len(s) : ~InClass(s[k], cls)}
    IN  IF bad = {} THEN Len(s) + 1 ELSE SetMin(bad)

\* parseInt(str, 10) on a string of decimal digits
RECURSIVE parseInt(_)
parseInt(str) ==
    IF Len(str) = 0 THEN 0
    ELSE 10 * parseInt(SubSeq(str, 1, Len(str) - 1)) + DigitVal(str[Len(str)])

Dots == <<".", ".", ".">>

\* comparison.split("..."): left to right, non-overlapping occurrences
RECURSIVE SplitFrom(_, _)
SplitFrom(s, start) ==
    LET hits == {p \in start..Len(s) : MatchAt(s, p, Dots)}
    IN  IF hits = {} THEN <<Slice(s, start, Len(s) + 1)>>
        ELSE LET p == SetMin(hits)
             IN  <<Slice(s, start, p)>> \o SplitFrom(s, p + 3)

split(s) == SplitFrom(s, 1)

(***************************************************************************)
(* parseGitHubUrl                                                          *)
(***************************************************************************)
GithubComSlash == <<"g", "i", "t", "h", "u", "b", ".", "c", "o", "m", "/">>

SlashPullSlash == <<"/", "p", "u", "l", "l", "/">>

SlashCompareSlash == <<"/", "c", "o", "m", "p", "a", "r", "e", "/">>

Main == <<"m", "a", "i", "n">>

Throw(msg) == [type |-> "error", message |-> msg]

\* /github\.com\/([^\/]+)\/([^\/]+)/ anchored at i: the two groups, and where the
\* rest of the pattern continues (rest = 0: no match at i)
OwnerRepoAt(s, i) ==
    LET o1 == i + Len(GithubComSlash)
        o2 == RunEnd(s, o1, "notslash")
        r1 == o2 + 1
        r2 == RunEnd(s, r1, "notslash")
    IN  IF /\ MatchAt(s, i, GithubComSlash)
           /\ o2 > o1
           /\ o2 <= Len(s)
           /\ s[o2] = "/"
           /\ r2 > r1
        THEN [owner |-> Slice(s, o1, o2), repo |-> Slice(s, r1, r2), rest |-> r2]
        ELSE [owner |-> <<>>, repo |-> <<>>, rest |-> 0]

\* prRegex anchored at i
PrMatchAt(s, i) ==
    LET h  == OwnerRepoAt(s, i)
        n1 == h.rest + Len(SlashPullSlash)
        n2 == RunEnd(s, n1, "digit")
    IN  IF h.rest > 0 /\ MatchAt(s, h.rest, SlashPullSlash) /\ n2 > n1
        THEN [ok |-> TRUE, owner |-> h.owner, repo |-> h.repo,
              last |-> Slice(s, n1, n2)]
        ELSE [ok |-> FALSE, owner |-> <<>>, repo |-> <<>>, last |-> <<>>]

\* compareRegex anchored at i
CompareMatchAt(s, i) ==
    LET h  == OwnerRepoAt(s, i)
        c1 == h.rest + Len(SlashCompareSlash)
        c2 == RunEnd(s, c1, "notqh")
    IN  IF h.rest > 0 /\ MatchAt(s, h.rest, SlashCompareSlash) /\ c2 > c1
        THEN [ok |-> TRUE, owner |-> h.owner, repo |-> h.repo,
              last |-> Slice(s, c1, c2)]
        ELSE [ok |-> FALSE, owner |-> <<>>, repo |-> <<>>, last |-> <<>>]

NoMatch == [ok |-> FALSE, owner |-> <<>>, repo |-> <<>>, last |-> <<>>]

\* url.match(prRegex): the leftmost match
prMatch(url) ==
    LET at == {i \in 1..Len(url) : PrMatchAt(url, i).ok}
    IN  IF at = {} THEN NoMatch ELSE PrMatchAt(url, SetMin(at))

\* url.match(compareRegex): the leftmost match
compareMatch(url) ==
    LET at == {i \in 1..Len(url) : CompareMatchAt(url, i).ok}
    IN  IF at = {} THEN NoMatch ELSE CompareMatchAt(url, SetMin(at))

\* PrBranch with the bound of the number check off by one (< for <=)
PrBranch_AcceptsZero(m) ==
    LET pull_number == parseInt(m.last)
    IN  IF Len(m.owner) = 0 \/ Len(m.repo) = 0 \/ Len(m.last) = 0
        THEN Throw("Failed to extract owner, repo, or pull number from URL")
        ELSE IF pull_number < 0
        THEN Throw("Invalid pull number in URL")
        ELSE [type |-> "pr",
              details |-> [owner |-> m.owner, repo |-> m.repo,
                           pull_number |-> pull_number]]

PrBranch(m) ==
    LET pull_number == parseInt(m.last)
    IN  IF Len(m.owner) = 0 \/ Len(m.repo) = 0 \/ Len(m.last) = 0
        THEN Throw("Failed to extract owner, repo, or pull number from URL")
        ELSE IF pull_number <= 0
        THEN Throw("Invalid pull number in URL")
        ELSE [type |-> "pr",
              details |-> [owner |-> m.owner, repo |-> m.repo,
                           pull_number |-> pull_number]]

\* CompareParts with the lone part taken as the base, not the head
CompareParts_LoneBase(parts) ==
    IF Len(parts) = 2 THEN [ok |-> TRUE, base |-> parts[1], head |-> parts[2]]
    ELSE IF Len(parts) = 1 THEN [ok |-> TRUE, base |-> parts[1], head |-> Main]
    ELSE [ok |-> FALSE, base |-> <<>>, head |-> <<>>]

CompareParts(parts) ==
    IF Len(parts) = 2 THEN [ok |-> TRUE, base |-> parts[1], head |-> parts[2]]
    ELSE IF Len(parts) = 1 THEN [ok |-> TRUE, base |-> Main, head |-> parts[1]]
    ELSE [ok |-> FALSE, base |-> <<>>, head |-> <<>>]

CompareBranch(m) ==
    LET bh == CompareParts(split(m.last))
    IN  IF Len(m.owner) = 0 \/ Len(m.repo) = 0 \/ Len(m.last) = 0
        THEN Throw("Failed to extract owner, repo, or comparison from URL")
        ELSE IF ~bh.ok
        THEN Throw("Invalid comparison format in URL")
        ELSE [type |-> "compare",
              details |-> [owner |-> m.owner, repo |-> m.repo,
                           base |-> bh.base, head |-> bh.head]]

parseGitHubUrl(url) ==
    IF Len(url) = 0 THEN Throw("GitHub URL is required and must be a string")
    ELSE IF prMatch(url).ok THEN PrBranch(prMatch(url))
    ELSE IF compareMatch(url).ok THEN CompareBranch(compareMatch(url))
    ELSE Throw("Invalid GitHub URL")

(***************************************************************************)
(* JSON.parse, on texts over an alphabet without backslash, digits, '[',   *)
(* control characters and the letters of true/false/null: a value is a     *)
(* string or an object.  A value is [t, s, o]: t its type, s the           *)
(* characters of a string, o the members of an object in insertion order.  *)
(***************************************************************************)
Quote == "\""

Whitespace == {" ", "\n", "\t", "\r"}

ControlChars == {"\n", "\t", "\r"}

Undefined == [t |-> "undefined", s |-> <<>>, o |-> <<>>]

StringValue(chars) == [t |-> "string", s |-> chars, o |-> <<>>]

ObjectValue(members) == [t |-> "object", s |-> <<>>, o |-> members]

\* first position >= i that holds no whitespace (Len(s) + 1: none)
SkipWs(s, i) ==
    LET at == {k \in i..Len(s) : s[k] \notin Whitespace}
    IN  IF at = {} THEN Len(s) + 1 ELSE SetMin(at)

Failed == [ok |-> FALSE, val |-> Undefined, next |-> 0]

\* obj[key] = val: a repeated key keeps its place and takes the last value
SetMember(members, key, val) ==
    IF \E k \in 1..Len(members) : members[k].key = key
    THEN [k \in 1..Len(members) |->
            IF members[k].key = key THEN [key |-> key, val |-> val]
            ELSE members[k]]
    ELSE Append(members, [key |-> key, val |-> val])

\* a string literal starting at the quote at i
ParseString(s, i) ==
    LET close == {k \in (i + 1)..Len(s) : s[k] = Quote}
    IN  IF i > Len(s) \/ s[i] # Quote \/ close = {} THEN Failed
        ELSE IF \E k \in (i + 1)..(SetMin(close) - 1) : s[k] \in ControlChars
        THEN Failed
        ELSE [ok |-> TRUE, val |-> StringValue(Slice(s, i + 1, SetMin(close))),
              next |-> SetMin(close) + 1]

RECURSIVE ParseValue(_, _)
RECURSIVE ParseMembers(_, _, _)
\* the members of an object from position i (after '{' or ','), up to its '}'
ParseMembers(s, i, acc) ==
    LET key   == ParseString(s, SkipWs(s, i))
        colon == SkipWs(s, key.next)
        val   == ParseValue(s, colon + 1)
        after == SkipWs(s, val.next)
    IN  IF ~key.ok THEN Failed
        ELSE IF colon > Len(s) \/ s[colon] # ":" THEN Failed
        ELSE IF ~val.ok THEN Failed
        ELSE IF after > Len(s) THEN Failed
        ELSE IF s[after] = ","
             THEN ParseMembers(s, after + 1, SetMember(acc, key.val.s, val.val))
        ELSE IF s[after] = "}"
             THEN [ok |-> TRUE,
                   val |-> ObjectValue(SetMember(acc, key.val.s, val.val)),
                   next |-> after + 1]
        ELSE Failed

\* a value starting at or after position i
ParseValue(s, i) ==
    LET j == SkipWs(s, i)
    IN  IF j > Len(s) THEN Failed
        ELSE IF s[j] = Quote THEN ParseString(s, j)
        ELSE IF s[j] = "{"
             THEN LET k == SkipWs(s, j + 1)
                  IN  IF k <= Len(s) /\ s[k] = "}"
                      THEN [ok |-> TRUE, val |-> ObjectValue(<<>>), next |-> k + 1]
                      ELSE ParseMembers(s, j + 1, <<>>)
        ELSE Failed

\* JSON.parse(text): one value, then only whitespace
JSONParse(text) ==
    LET v == ParseValue(text, 1)
    IN  IF v.ok /\ SkipWs(text, v.next) = Len(text) + 1
        THEN [ok |-> TRUE, val |-> v.val]
        ELSE [ok |-> FALSE, val |-> Undefined]

\* obj.key on a parsed value
Get(obj, key) ==
    IF obj.t = "object" /\ \E k \in 1..Len(obj.o) : obj.o[k].key = key
    THEN obj.o[CHOOSE k \in 1..Len(obj.o) : obj.o[k].key = key].val
    ELSE Undefined

(***************************************************************************)
(* generateTitleAndDescription: what it makes of the reply                 *)
(***************************************************************************)
title == <<"t", "i", "t", "l", "e">>

description == <<"d", "e", "s", "c", "r", "i", "p", "t", "i", "o", "n">>

\* jsonMatch with a lazy quantifier: from the first '{' to the first '}' after it
jsonMatch_Lazy(text) ==
    LET open  == {k \in 1..Len(text) : text[k] = "{"}
        close == {k \in 1..Len(text) : text[k] = "}" /\ open # {} /\ k > SetMin(open)}
    IN  IF open # {} /\ close # {}
        THEN [ok |-> TRUE, span |-> Slice(text, SetMin(open), SetMin(close) + 1)]
        ELSE [ok |-> FALSE, span |-> <<>>]

\* content.text.match(/\{[\s\S]*\}/): from the first '{' to the last '}'
jsonMatch(text) ==
    LET open  == {k \in 1..Len(text) : text[k] = "{"}
        close == {k \in 1..Len(text) : text[k] = "}"}
    IN  IF open # {} /\ close # {} /\ SetMax(close) > SetMin(open)
        THEN [ok |-> TRUE, span |-> Slice(text, SetMin(open), SetMax(close) + 1)]
        ELSE [ok |-> FALSE, span |-> <<>>]

Returned(v) == [type |-> "ok", value |-> v, message |-> ""]

Thrown(msg) == [type |-> "error", value |-> Undefined, message |-> msg]

\* lines 202-213, on the message the service answered with
parseReply(message) ==
    IF Len(message.content) > 0 /\ message.content[1].type = "text"
    THEN LET m == jsonMatch(message.content[1].text)
         IN  IF m.ok
             THEN IF JSONParse(m.span).ok
                  THEN Returned(JSONParse(m.span).val)
                  ELSE Thrown("SyntaxError")
             ELSE Thrown("Could not parse JSON response from Claude")
    ELSE Thrown("Unexpected response format from Anthropic API")

(***************************************************************************)
(* Inputs                                                                  *)
(***************************************************************************)
MaxNumLen == 3

MaxSpecPieces == 4

\* every concatenation of at most n of the pieces P
RECURSIVE Words(_, _)
Words(P, n) ==
    IF n = 0 THEN {<<>>}
    ELSE LET W == Words(P, n - 1) IN W \cup {w \o q : w \in W, q \in P}

Https == <<"h", "t", "t", "p", "s", ":", "/", "/">>

Owners == {<<"o">>, <<"a", "c", "m", "e">>}

Repos == {<<"r">>, <<"w", ".", "j", "s">>}

PullUrl(O, R, N) ==
    Https \o GithubComSlash \o O \o <<"/">> \o R \o SlashPullSlash \o N

CompareUrl(O, R, S) ==
    Https \o GithubComSlash \o O \o <<"/">> \o R \o SlashCompareSlash \o S

NumberTexts == Words({<<"0">>, <<"1">>, <<"9">>, <<"a">>}, MaxNumLen)

SpecTexts == Words({<<"a">>, <<"b">>, <<".">>, Dots, <<"?">>, <<"#">>}, MaxSpecPieces)

\* three parts, and names with a slash, are longer than the enumerated texts
LongSpecTexts ==
    { <<"a">> \o Dots \o <<"b">> \o Dots \o <<"c">>,
      <<"a">> \o Dots \o <<"b">> \o Dots \o <<"c", "?", "x">>,
      Main \o Dots \o <<"f", "/", "x">>,
      Main \o Dots \o <<"f", "/", "x", "?", "e", "=", "1">>,
      <<"f", "/", "x", "#", "d">> }

\* texts that are neither shape
OtherUrls ==
    { <<>>,
      <<"x">>,
      Https \o GithubComSlash \o <<"o", "/", "r">>,
      Https \o GithubComSlash \o <<"o", "/", "r", "/", "i", "s", "s", "u", "e", "s", "/", "1">>,
      Https \o GithubComSlash \o <<"/", "r">> \o SlashPullSlash \o <<"1">>,
      Https \o GithubComSlash \o <<"o", "/">> \o SlashPullSlash \o <<"1">>,
      Https \o <<"g", "i", "t", "h", "u", "b", "x", "c", "o", "m", "/", "o", "/", "r">>
            \o SlashPullSlash \o <<"1">>,
      GithubComSlash \o <<"o", "/", "r">> \o SlashPullSlash \o <<"7", "/", "f", "i", "l", "e", "s">>,
      Https \o GithubComSlash \o <<"o", "/", "r", "/", "x">> \o SlashPullSlash \o <<"1">> }

ParserUrls ==
    {PullUrl(O, R, N) : O \in Owners, R \in Repos, N \in NumberTexts}
    \cup {CompareUrl(O, R, S) : O \in Owners, R \in Repos, S \in SpecTexts \cup LongSpecTexts}
    \cup OtherUrls

HelpFlags == {<<"-", "-", "h", "e", "l", "p">>, <<"-", "h">>}

Token == StringValue(<<"k">>)

\* process.env.X: unset, set to the empty string, or set
EnvValues == {Undefined, StringValue(<<>>), Token}

EnvNames == {"GITHUB_PRD_TOKEN", "ANTHROPIC_API_KEY"}

FullEnv == [n \in EnvNames |-> Token]

MaxMembers == 2

MaxReplyPieces == 3

MaxFiles == 1

MaxExternalEdits == 1

Key(name) == <<Quote>> \o name \o <<Quote, ":">>

\* the texts of values: "a", "", a string holding braces
ValueTexts == {<<Quote, "a", Quote>>, <<Quote, Quote>>, <<Quote, "}", "{", Quote>>}

\* the texts of object members: "key":value
MemberTexts ==
    {Key(k) \o v : k \in {title, description}, v \in ValueTexts}
    \cup { Key(description) \o <<"{", "}">>,
           Key(title) \o <<" ", Quote, "b", Quote, " ">>,
           Key(<<"x">>) \o <<Quote, "c", Quote>> }

RECURSIVE Join(_)
\* the members, comma-separated
Join(ms) ==
    IF Len(ms) = 0 THEN <<>>
    ELSE IF Len(ms) = 1 THEN ms[1]
    ELSE ms[1] \o <<",">> \o Join(Tail(ms))

MemberLists == UNION {[1..n -> MemberTexts] : n \in 0..MaxMembers}

ObjectTexts == {<<"{">> \o Join(ms) \o <<"}">> : ms \in MemberLists}

\* prose without braces
Prose == {<<>>, <<"H", "i", ":", "\n">>}

PieceTexts ==
    Words({<<"{">>, <<"}">>, <<"x">>, <<",">>,
           Key(title) \o <<Quote, "a", Quote>>,
           Key(description) \o <<Quote, "b", Quote>>}, MaxReplyPieces)

ReplyTexts == {a \o t \o b : a \in Prose, t \in ObjectTexts, b \in Prose} \cup PieceTexts

TextBlock(text) == [type |-> "text", text |-> text]

ToolUseBlock == [type |-> "tool_use", text |-> <<>>]

GoodText == <<"{">> \o Key(title) \o <<Quote, "a", Quote, ",">>
                  \o Key(description) \o <<Quote, "b", Quote, "}">>

\* replies whose first block is no text
OtherMessages ==
    { [content |-> <<>>],
      [content |-> <<ToolUseBlock>>],
      [content |-> <<ToolUseBlock, TextBlock(GoodText)>>] }

AllMessages == {[content |-> <<TextBlock(t)>>] : t \in ReplyTexts} \cup OtherMessages

Null == [t |-> "null", s |-> <<>>, o |-> <<>>]

File(k) == [filename |-> k]

FileLists == {[k \in 1..n |-> File(k)] : n \in 0..MaxFiles}

\* what the host answers a comparison with: files may be absent
Comparisons ==
    {[files |-> [defined |-> TRUE, items |-> fs]] : fs \in FileLists}
    \cup {[files |-> [defined |-> FALSE, items |-> <<>>]]}

\* the pull requests the host knows, and what it holds for each at the start
HostPulls ==
    { [owner |-> <<"o">>, repo |-> <<"r">>, pull_number |-> 1],
      [owner |-> <<"o">>, repo |-> <<"r">>, pull_number |-> 19] }

HostAtStart ==
    [k \in HostPulls |->
        [title |-> <<"T", "0">>,
         body |-> IF k.pull_number = 1 THEN Null ELSE StringValue(<<"p">>)]]

ExternalBody == StringValue(<<"e">>)


(***************************************************************************)
(* The process: main                                                       *)
(***************************************************************************)
VARIABLES
    args,        \* process.argv.slice(2)
    env,         \* process.env
    pc,          \* where main stands
    urlDetails,  \* what parseGitHubUrl returned
    pr,          \* the pull request as read
    comparison,  \* the comparison as read: <<>> until it is
    files,       \* the changed files as read
    message,     \* the reply of the text-generation service: <<>> until it is there
    generated,   \* what generateTitleAndDescription returned
    error,       \* the message of the error the try block caught
    exitCode,    \* the exit status, -1 while the process runs
    stdout,      \* what console.log printed
    stderr,      \* what console.error printed
    inFlight,    \* the requests awaiting their answer
    calls,       \* every request issued, in order
    host,        \* the source host: its pull requests
    edits        \* the edits others made on the host, and when each was made

vars == <<args, env, pc, urlDetails, pr, comparison, files, message, generated,
          error, exitCode, stdout, stderr, inFlight, calls, host, edits>>

local == <<urlDetails, pr, comparison, files, message, generated, error>>

io == <<stdout, stderr>>

net == <<inFlight, calls, host>>

Running == -1

NoDetails == [type |-> "none"]

NoPr == [title |-> <<>>, body |-> Undefined]

\* Falsy that tests for undefined alone, so that an empty string passes
Falsy_UndefinedOnly(v) == v.t = "undefined"

\* !v for a value that is undefined, null or a string
Falsy(v) == v.t \in {"undefined", "null"} \/ (v.t = "string" /\ Len(v.s) = 0)

includes(a, x) == \E k \in 1..Len(a) : a[k] = x

WantsUsage == Len(args) = 0 \/ \E h \in HelpFlags : includes(args, h)

githubUrl == args[1]

\* process.exit(code)
Exit(code) == pc' = "exited" /\ exitCode' = code

Log(line, value) == [line |-> line, value |-> value]

InitWith(A, E) ==
    /\ args \in A
    /\ env \in E
    /\ pc = "main"
    /\ urlDetails = NoDetails
    /\ pr = NoPr
    /\ comparison = <<>>
    /\ files = <<>>
    /\ message = <<>>
    /\ generated = Undefined
    /\ error = ""
    /\ exitCode = Running
    /\ stdout = <<>>
    /\ stderr = <<>>
    /\ inFlight = <<>>
    /\ calls = <<>>
    /\ host = HostAtStart
    /\ edits = <<>>

\* lines 232-255
ShowUsage ==
    /\ pc = "main"
    /\ WantsUsage
    /\ stdout' = Append(stdout, Log("Usage", Undefined))
    /\ Exit(0)
    /\ UNCHANGED <<args, env, local, stderr, net, edits>>

\* lines 261-264
MissingGithubToken ==
    /\ pc = "main"
    /\ ~WantsUsage
    /\ Falsy(env["GITHUB_PRD_TOKEN"])
    /\ stderr' = Append(stderr, "Error: GITHUB_PRD_TOKEN environment variable is required")
    /\ Exit(1)
    /\ UNCHANGED <<args, env, local, stdout, net, edits>>

\* lines 266-269
MissingAnthropicKey ==
    /\ pc = "main"
    /\ ~WantsUsage
    /\ ~Falsy(env["GITHUB_PRD_TOKEN"])
    /\ Falsy(env["ANTHROPIC_API_KEY"])
    /\ stderr' = Append(stderr, "Error: ANTHROPIC_API_KEY environment variable is required")
    /\ Exit(1)
    /\ UNCHANGED <<args, env, local, stdout, net, edits>>

PreflightOk ==
    /\ pc = "main"
    /\ ~WantsUsage
    /\ ~Falsy(env["GITHUB_PRD_TOKEN"])
    /\ ~Falsy(env["ANTHROPIC_API_KEY"])

\* lines 271-274
MissingUrl ==
    /\ PreflightOk
    /\ Len(githubUrl) = 0
    /\ stderr' = Append(stderr, "Error: GitHub URL is required")
    /\ Exit(1)
    /\ UNCHANGED <<args, env, local, stdout, net, edits>>

\* lines 276-283: the try block up to the dispatch on urlDetails.type
ParseUrl ==
    /\ PreflightOk
    /\ Len(githubUrl) # 0
    /\ urlDetails' = parseGitHubUrl(githubUrl)
    /\ IF urlDetails'.type = "error"
       THEN pc' = "catch" /\ error' = urlDetails'.message
       ELSE pc' = urlDetails'.type /\ error' = error
    /\ UNCHANGED <<args, env, pr, comparison, files, message, generated, exitCode,
                   io, net, edits>>

\* ReportFailure that exits with 0
ReportFailure_ExitsZero ==
    /\ pc = "catch"
    /\ stderr' = Append(stderr, error)
    /\ Exit(0)
    /\ UNCHANGED <<args, env, local, stdout, net, edits>>

\* lines 359-366
ReportFailure ==
    /\ pc = "catch"
    /\ stderr' = Append(stderr, error)
    /\ Exit(1)
    /\ UNCHANGED <<args, env, local, stdout, net, edits>>

(***************************************************************************)
(* The remote calls.  A call is issued (it joins inFlight and calls) and   *)
(* later answered: it returns, or it fails and the await throws.           *)
(***************************************************************************)
Request(api, params) == [api |-> api, params |-> params]

Issue(req) ==
    /\ inFlight' = Append(inFlight, req)
    /\ calls' = Append(calls, req)
    /\ host' = host

Awaiting(api) ==
    /\ pc = "await"
    /\ Len(inFlight) > 0
    /\ inFlight[1].api = api

\* CallPullsGet that starts both reads at once, as Promise.all would
CallPullsGet_BothAtOnce ==
    /\ pc = "pr"
    /\ inFlight' = inFlight \o <<Request("pulls.get", urlDetails.details),
                                  Request("pulls.listFiles", urlDetails.details)>>
    /\ calls' = calls \o <<Request("pulls.get", urlDetails.details),
                            Request("pulls.listFiles", urlDetails.details)>>
    /\ host' = host
    /\ pc' = "await"
    /\ UNCHANGED <<args, env, local, exitCode, io, edits>>

\* lines 291-292, 108-112: octokit.pulls.get
CallPullsGet ==
    /\ pc = "pr"
    /\ Issue(Request("pulls.get", urlDetails.details))
    /\ pc' = "await"
    /\ UNCHANGED <<args, env, local, exitCode, io, edits>>

ReturnPullsGet ==
    /\ Awaiting("pulls.get")
    /\ inFlight[1].params \in DOMAIN host
    /\ pr' = host[inFlight[1].params]
    /\ inFlight' = Tail(inFlight)
    /\ pc' = "listFiles"
    /\ UNCHANGED <<args, env, urlDetails, comparison, files, message, generated,
                   error, exitCode, io, calls, host, edits>>

\* lines 114-118: octokit.pulls.listFiles
CallListFiles ==
    /\ pc = "listFiles"
    /\ Issue(Request("pulls.listFiles", urlDetails.details))
    /\ pc' = "await"
    /\ UNCHANGED <<args, env, local, exitCode, io, edits>>

\* lines 120, 293
ReturnListFiles ==
    /\ Awaiting("pulls.listFiles")
    /\ \E fs \in FileLists : files' = fs
    /\ inFlight' = Tail(inFlight)
    /\ stdout' = Append(stdout, Log("Found", Undefined))
    /\ pc' = "generate"
    /\ UNCHANGED <<args, env, urlDetails, pr, comparison, message, generated, error,
                   exitCode, stderr, calls, host, edits>>

basehead(d) == d.base \o Dots \o d.head

\* lines 330-331, 124-128: octokit.repos.compareCommitsWithBasehead
CallCompare ==
    /\ pc = "compare"
    /\ Issue(Request("repos.compareCommitsWithBasehead",
                     [owner |-> urlDetails.details.owner,
                      repo |-> urlDetails.details.repo,
                      basehead |-> basehead(urlDetails.details)]))
    /\ pc' = "await"
    /\ UNCHANGED <<args, env, local, exitCode, io, edits>>

\* ReturnCompare that tests the length alone: an absent list goes on as empty
ReturnCompare_LengthOnly ==
    /\ pc = "await"
    /\ Len(inFlight) > 0
    /\ inFlight[1].api = "repos.compareCommitsWithBasehead"
    /\ inFlight' = Tail(inFlight)
    /\ \E c \in Comparisons :
          /\ comparison' = <<c>>
          /\ IF c.files.defined /\ Len(c.files.items) = 0
             THEN /\ files' = files
                  /\ stdout' = stdout \o <<Log("Found", Undefined),
                                           Log("No file changes found", Undefined)>>
                  /\ Exit(0)
             ELSE /\ files' = c.files.items
                  /\ stdout' = Append(stdout, Log("Found", Undefined))
                  /\ pc' = "generate"
                  /\ exitCode' = exitCode
    /\ UNCHANGED <<args, env, urlDetails, pr, message, generated, error, stderr,
                   calls, host, edits>>

\* lines 332-337: comparison.files may be absent, empty or not
ReturnCompare ==
    /\ Awaiting("repos.compareCommitsWithBasehead")
    /\ inFlight' = Tail(inFlight)
    /\ \E c \in Comparisons :
          /\ comparison' = <<c>>
          /\ IF ~c.files.defined \/ Len(c.files.items) = 0
             THEN /\ files' = files
                  /\ stdout' = stdout \o <<Log("Found", Undefined),
                                           Log("No file changes found", Undefined)>>
                  /\ Exit(0)
             ELSE /\ files' = c.files.items
                  /\ stdout' = Append(stdout, Log("Found", Undefined))
                  /\ pc' = "generate"
                  /\ exitCode' = exitCode
    /\ UNCHANGED <<args, env, urlDetails, pr, message, generated, error, stderr,
                   calls, host, edits>>

\* lines 152-162: what the prompt says about the change besides its files
Context ==
    IF urlDetails.type = "pr"
    THEN [currentTitle |-> pr.title, currentBody |-> pr.body,
          base |-> <<>>, head |-> <<>>]
    ELSE [currentTitle |-> <<>>, currentBody |-> Undefined,
          base |-> urlDetails.details.base, head |-> urlDetails.details.head]

\* lines 143-200: anthropic.messages.create
CallMessagesCreate ==
    /\ pc = "generate"
    /\ Issue(Request("messages.create", [files |-> files, context |-> Context]))
    /\ pc' = "await"
    /\ UNCHANGED <<args, env, local, exitCode, io, edits>>

\* lines 202-213: the answer is any message of M
ReturnMessagesCreate(M) ==
    /\ Awaiting("messages.create")
    /\ inFlight' = Tail(inFlight)
    /\ \E m \in M :
          LET r == parseReply(m)
          IN  /\ message' = <<m>>
              /\ IF r.type = "error"
                 THEN pc' = "catch" /\ error' = r.message /\ generated' = generated
                 ELSE pc' = "generated" /\ error' = error /\ generated' = r.value
    /\ UNCHANGED <<args, env, urlDetails, pr, comparison, files, exitCode, io,
                   calls, host, edits>>

\* CallPullsUpdate without the dispatch on the type: a comparison writes to
\* pull request 1 of its repository
CallPullsUpdate_AnyType ==
    /\ pc = "generated"
    /\ stdout' = stdout \o <<Log("Title", Get(generated, title)),
                             Log("Description", Get(generated, description)),
                             Log("Suggested title", Get(generated, title))>>
    /\ Issue(Request("pulls.update",
                     [owner |-> urlDetails.details.owner,
                      repo |-> urlDetails.details.repo,
                      pull_number |-> IF urlDetails.type = "pr"
                                      THEN urlDetails.details.pull_number ELSE 1,
                      body |-> Get(generated, description)]))
    /\ pc' = "await"
    /\ UNCHANGED <<args, env, local, exitCode, stderr, edits>>

\* CallPullsUpdate that sends the generated title along with the body
CallPullsUpdate_WithTitle ==
    /\ pc = "generated"
    /\ urlDetails.type = "pr"
    /\ stdout' = stdout \o <<Log("Title", Get(generated, title)),
                             Log("Description", Get(generated, description)),
                             Log("Suggested title", Get(generated, title))>>
    /\ Issue(Request("pulls.update",
                     [owner |-> urlDetails.details.owner,
                      repo |-> urlDetails.details.repo,
                      pull_number |-> urlDetails.details.pull_number,
                      title |-> Get(generated, title),
                      body |-> Get(generated, description)]))
    /\ pc' = "await"
    /\ UNCHANGED <<args, env, local, exitCode, stderr, edits>>

\* lines 301-313, 221-226: print, then octokit.pulls.update
CallPullsUpdate ==
    /\ pc = "generated"
    /\ urlDetails.type = "pr"
    /\ stdout' = stdout \o <<Log("Title", Get(generated, title)),
                             Log("Description", Get(generated, description)),
                             Log("Suggested title", Get(generated, title))>>
    /\ Issue(Request("pulls.update",
                     [owner |-> urlDetails.details.owner,
                      repo |-> urlDetails.details.repo,
                      pull_number |-> urlDetails.details.pull_number,
                      body |-> Get(generated, description)]))
    /\ pc' = "await"
    /\ UNCHANGED <<args, env, local, exitCode, stderr, edits>>

PullOf(params) ==
    [owner |-> params.owner, repo |-> params.repo, pull_number |-> params.pull_number]

\* the host's PATCH stores the fields the request carries: a string body, and a
\* string title if there is one; an absent field changes nothing
Patched(h, params) ==
    LET k == PullOf(params)
        body == IF params.body.t = "string" THEN params.body ELSE h[k].body
        newTitle == IF "title" \in DOMAIN params /\ params.title.t = "string"
                    THEN params.title.s ELSE h[k].title
    IN  [h EXCEPT ![k] = [title |-> newTitle, body |-> body]]

\* lines 315-319
ReturnPullsUpdate ==
    /\ Awaiting("pulls.update")
    /\ PullOf(inFlight[1].params) \in DOMAIN host
    /\ inFlight[1].params.body.t \in {"string", "undefined"}
    /\ host' = Patched(host, inFlight[1].params)
    /\ inFlight' = Tail(inFlight)
    /\ stdout' = Append(stdout, Log("Successfully updated PR description!", Undefined))
    /\ pc' = "end"
    /\ UNCHANGED <<args, env, local, exitCode, stderr, calls, edits>>

\* lines 346-357
PrintGenerated ==
    /\ pc = "generated"
    /\ urlDetails.type = "compare"
    /\ stdout' = stdout \o <<Log("Title", Get(generated, title)),
                             Log("Description", Get(generated, description))>>
    /\ pc' = "end"
    /\ UNCHANGED <<args, env, local, exitCode, stderr, net, edits>>

\* RequestFails that issues the failed request again instead of throwing
RequestFails_Retries ==
    /\ pc = "await"
    /\ Len(inFlight) > 0
    /\ Len(calls) < 6
    /\ calls' = Append(calls, inFlight[1])
    /\ UNCHANGED <<args, env, pc, local, exitCode, io, inFlight, host, edits>>

\* the awaited call rejects: the try block's catch takes over (line 359)
RequestFails ==
    /\ pc = "await"
    /\ Len(inFlight) > 0
    /\ inFlight' = Tail(inFlight)
    /\ error' = "request failed: " \o inFlight[1].api
    /\ pc' = "catch"
    /\ UNCHANGED <<args, env, urlDetails, pr, comparison, files, message, generated,
                   exitCode, io, calls, host, edits>>

\* main returns (line 367) with nothing pending: the process exits with 0
MainReturns ==
    /\ pc = "end"
    /\ Exit(0)
    /\ UNCHANGED <<args, env, local, io, net, edits>>

\* someone else edits a pull request's body on the host
ExternalEdit ==
    /\ pc \notin {"main", "exited"}
    /\ Len(edits) < MaxExternalEdits
    /\ \E k \in DOMAIN host :
          /\ host' = [host EXCEPT ![k].body = ExternalBody]
          /\ edits' = Append(edits, [pull |-> k, answered |-> Len(calls) - Len(inFlight)])
    /\ UNCHANGED <<args, env, pc, local, exitCode, io, inFlight, calls>>

(***************************************************************************)
(* Specifications                                                          *)
(***************************************************************************)
Preflight == ShowUsage \/ MissingGithubToken \/ MissingAnthropicKey \/ MissingUrl

PullRequestPath ==
    CallPullsGet \/ ReturnPullsGet \/ CallListFiles \/ ReturnListFiles
      \/ CallPullsUpdate \/ ReturnPullsUpdate

ComparePath == CallCompare \/ ReturnCompare \/ PrintGenerated

Step(M) ==
    \/ Preflight
    \/ ParseUrl
    \/ PullRequestPath
    \/ ComparePath
    \/ CallMessagesCreate
    \/ ReturnMessagesCreate(M)
    \/ RequestFails
    \/ ReportFailure
    \/ MainReturns

AllEnvs == [EnvNames -> EnvValues]

\* the driver, on a few URLs and replies
DriverUrls ==
    { PullUrl(<<"o">>, <<"r">>, <<"1">>),
      PullUrl(<<"o">>, <<"r">>, <<"1", "9">>),
      PullUrl(<<"o">>, <<"r">>, <<"7">>),
      PullUrl(<<"o">>, <<"r">>, <<"0">>),
      CompareUrl(<<"o">>, <<"r">>, Main \o Dots \o <<"f">>),
      CompareUrl(<<"o">>, <<"r">>, <<"f", "?", "x">>),
      CompareUrl(<<"o">>, <<"r">>, <<"a">> \o Dots \o <<"b">> \o Dots \o <<"c">>),
      Https \o GithubComSlash \o <<"o", "/", "r">>,
      <<>> }

DriverArgs ==
    {<<>>} \cup {<<u>> : u \in DriverUrls \cup HelpFlags}
           \cup {<<u, h>> : u \in DriverUrls, h \in HelpFlags}
           \cup {<<h, u>> : u \in DriverUrls, h \in HelpFlags}

DriverMessages ==
    OtherMessages \cup
    {[content |-> <<TextBlock(t)>>] :
        t \in { GoodText,
                <<"H", "i">>,
                <<"S", "e", "e", " ">> \o GoodText \o <<" ", "o", "k">>,
                <<"{">> \o Key(title) \o <<Quote, "a", Quote, "}">>,
                <<"{">> \o Key(description) \o <<Quote, Quote, "}">>,
                <<"{", "x", "}", " ">> \o GoodText }}

Init == InitWith(DriverArgs, AllEnvs)

Next == Step(DriverMessages) \/ ExternalEdit

Spec == Init /\ [][Next]_vars

\* ENABLED <<ParseUrl>>_vars: ParseUrl always changes pc
ParseUrlEnabled == PreflightOk /\ Len(githubUrl) # 0

\* every step of the process but ParseUrl
StepButParse(M) ==
    \/ Preflight
    \/ PullRequestPath
    \/ ComparePath
    \/ CallMessagesCreate
    \/ ReturnMessagesCreate(M)
    \/ RequestFails
    \/ ReportFailure
    \/ MainReturns

\* The process is scheduled until it exits, and every request is answered or
\* fails: weak fairness of the process's steps.  The second conjunct is
\* WF_vars(ParseUrl) with its ENABLED written out.
FairSpec ==
    /\ Spec
    /\ WF_vars(StepButParse(DriverMessages))
    /\ ([]<>~ParseUrlEnabled \/ []<><<ParseUrl>>_vars)

\* the parser, on every URL of ParserUrls
NextParse == Preflight \/ ParseUrl \/ ReportFailure

ParserArgs ==
    {<<>>} \cup {<<u>> : u \in ParserUrls}
           \cup {<<u, h>> : u \in OtherUrls, h \in HelpFlags}

InitParse ==
    \/ InitWith(ParserArgs, {FullEnv})
    \/ InitWith({<<u>> : u \in OtherUrls}, AllEnvs)

ParseSpec == InitParse /\ [][NextParse]_vars

\* the generator, on every message of AllMessages
GenArgs ==
    { <<PullUrl(<<"o">>, <<"r">>, <<"1">>)>>,
      <<CompareUrl(<<"o">>, <<"r">>, Main \o Dots \o <<"f">>)>>,
      <<>>, <<<<>>>>, << <<"x">> >> }

InitGen == InitWith(GenArgs, {FullEnv, [FullEnv EXCEPT !["GITHUB_PRD_TOKEN"] = Undefined],
                                       [FullEnv EXCEPT !["ANTHROPIC_API_KEY"] = Undefined]})

NextGen == Step(AllMessages)

GenSpec == InitGen /\ [][NextGen]_vars
(***************************************************************************)
(* Properties of the parser (ParseSpec)                                    *)
(***************************************************************************)
HasPrefix(u, p) == Len(u) >= Len(p) /\ SubSeq(u, 1, Len(p)) = p

After(u, p) == SubSeq(u, Len(p) + 1, Len(u))

AllDigits(N) == \A k \in 1..Len(N) : N[k] \in DigitChars

\* the longest prefix of N made of digits
LeadingDigits(N) == SubSeq(N, 1, RunEnd(N, 1, "digit") - 1)

RECURSIVE StripZeros(_)
StripZeros(N) == IF Len(N) > 1 /\ N[1] = "0" THEN StripZeros(Tail(N)) ELSE N

\* the decimal numeral of n
RECURSIVE Decimal(_)
Decimal(n) ==
    IF n < 10 THEN <<Digits[n + 1]>>
    ELSE Decimal(n \div 10) \o <<Digits[(n % 10) + 1]>>

\* main has called parseGitHubUrl
Parsed == urlDetails.type # "none"

IsPullRef(O, R, numeral) ==
    /\ urlDetails.type = "pr"
    /\ urlDetails.details.owner = O
    /\ urlDetails.details.repo = R
    /\ Decimal(urlDetails.details.pull_number) = numeral

IsCompareRef(O, R, base, head) ==
    /\ urlDetails.type = "compare"
    /\ urlDetails.details.owner = O
    /\ urlDetails.details.repo = R
    /\ urlDetails.details.base = base
    /\ urlDetails.details.head = head

\* C1, as claimed: a URL https://github.com/O/R/pull/N parses to the pull request
\* (O, R, value of N) when N is a string of digits denoting a positive integer,
\* and is rejected when N denotes 0 or is not numeric.
C1_AsClaimed ==
    Parsed =>
      \A O \in Owners, R \in Repos :
        HasPrefix(githubUrl, PullUrl(O, R, <<>>)) =>
          LET N == After(githubUrl, PullUrl(O, R, <<>>))
          IN  IF N # <<>> /\ AllDigits(N) /\ StripZeros(N) # <<"0">>
              THEN IsPullRef(O, R, StripZeros(N))
              ELSE urlDetails.type = "error"

\* C1, amended: what decides is the run of digits N begins with.  The URL parses
\* to the pull request (O, R, value of that run) when the run is not empty and
\* denotes a positive integer, and is rejected when N begins with no digit or the
\* run denotes 0.
C1_PullUrlParsed ==
    Parsed =>
      \A O \in Owners, R \in Repos :
        HasPrefix(githubUrl, PullUrl(O, R, <<>>)) =>
          LET L == LeadingDigits(After(githubUrl, PullUrl(O, R, <<>>)))
          IN  IF L # <<>> /\ StripZeros(L) # <<"0">>
              THEN IsPullRef(O, R, StripZeros(L))
              ELSE urlDetails.type = "error"

C1_Witness ==
    /\ Parsed
    /\ githubUrl = PullUrl(<<"a", "c", "m", "e">>, <<"w", ".", "j", "s">>, <<"0", "1", "9">>)
    /\ IsPullRef(<<"a", "c", "m", "e">>, <<"w", ".", "j", "s">>, <<"1", "9">>)
    /\ urlDetails.details.pull_number = 19

\* the comparison of a compare URL's rest: up to the first '?' or '#'
SpecOf(rest) == SubSeq(rest, 1, RunEnd(rest, 1, "notqh") - 1)

Names == {<<"a">>, <<"b">>, <<"a", "b">>, <<"f", "/", "x">>, Main}

C3_AsClaimed ==
    /\ urlDetails.type \in {"pr", "compare"} =>
          Len(urlDetails.details.owner) > 0 /\ Len(urlDetails.details.repo) > 0
    /\ urlDetails.type = "pr" => urlDetails.details.pull_number > 0
    /\ urlDetails.type = "compare" =>
          Len(urlDetails.details.base) > 0 /\ Len(urlDetails.details.head) > 0

(***************************************************************************)
(* Properties of the driver (Spec, FairSpec)                               *)
(***************************************************************************)
Absent(v) == v = Undefined \/ v = StringValue(<<>>)

CredentialAbsent == Absent(env["GITHUB_PRD_TOKEN"]) \/ Absent(env["ANTHROPIC_API_KEY"])

Exited == pc = "exited"

Apis == {calls[k].api : k \in 1..Len(calls)}

\* no request was issued, and none is pending
NoNetwork == calls = <<>> /\ inFlight = <<>>

\* C4, as claimed: a run without the host credential or without the generation
\* key ends with exit code 1 and issues no request.
C4_AsClaimed ==
    CredentialAbsent => NoNetwork /\ (Exited => exitCode = 1)

\* C4, amended: a run with at least one argument, none of them --help or -h,
\* without the host credential or without the generation key, goes from the
\* start straight to exit code 1 with a line on the error stream, and issues no
\* request.
C4_NoCredentialNoNetwork ==
    CredentialAbsent /\ Len(args) > 0 /\ ~(\E h \in HelpFlags : includes(args, h)) =>
      /\ NoNetwork
      /\ pc \in {"main", "exited"}
      /\ Exited => exitCode = 1 /\ Len(stderr) = 1 /\ stdout = <<>>

C4_Witness ==
    /\ env["GITHUB_PRD_TOKEN"] = Token
    /\ env["ANTHROPIC_API_KEY"] = StringValue(<<>>)
    /\ args = <<PullUrl(<<"o">>, <<"r">>, <<"1">>)>>
    /\ Exited
    /\ exitCode = 1

UrlMissing == Len(args) = 0 \/ args[1] = <<>>

UrlRejected == Len(args) > 0 /\ parseGitHubUrl(args[1]).type = "error"

\* C5, as claimed: a run whose URL argument is missing, or is neither accepted
\* shape, ends with exit code 1 and issues no request.
C5_AsClaimed ==
    UrlMissing \/ UrlRejected => NoNetwork /\ (Exited => exitCode = 1)

\* C5, amended: a run with at least one argument, none of them --help or -h,
\* whose first argument is empty or is neither accepted shape, ends with exit
\* code 1 and issues no request; and in every run, a request is issued only
\* after the URL has parsed to a reference.
C5_BadUrlNoNetwork ==
    /\ (UrlMissing \/ UrlRejected) /\ Len(args) > 0
          /\ ~(\E h \in HelpFlags : includes(args, h)) =>
          /\ NoNetwork
          /\ pc \in {"main", "catch", "exited"}
          /\ Exited => exitCode = 1 /\ Len(stderr) = 1
    /\ ~NoNetwork => urlDetails.type \in {"pr", "compare"}

C5_Witness ==
    /\ env = FullEnv
    /\ args = <<CompareUrl(<<"o">>, <<"r">>, <<"a">> \o Dots \o <<"b">> \o Dots \o <<"c">>)>>
    /\ urlDetails.type = "error"
    /\ Exited
    /\ exitCode = 1

\* an error was reported: by the pre-flight checks or by the catch block
Reported == stderr # <<>>

\* C6: every run ends; an error raised by a step takes the run straight to the
\* failure report and to exit status 1, no later step runs and no request is
\* issued twice; a run in which no error is raised exits with status 0.
C6_TerminationAndStatus ==
    /\ <>Exited
    /\ [](Exited => exitCode = IF Reported THEN 1 ELSE 0)
    /\ [](error # "" => pc \in {"catch", "exited"} /\ inFlight = <<>>)
    /\ [](\A i \in 1..Len(calls), j \in 1..Len(calls) :
              i # j => calls[i].api # calls[j].api)
    /\ [][pc = "catch" =>
            /\ pc' \in {"catch", "exited"}
            /\ calls' = calls
            /\ inFlight' = inFlight
            /\ pc' = "exited" => exitCode' = 1 /\ stderr' = Append(stderr, error)]_vars
    /\ [][pc = "exited" => pc' = "exited" /\ exitCode' = exitCode /\ calls' = calls]_vars

C6_Witness ==
    /\ Exited
    /\ exitCode = 1
    /\ error = "request failed: pulls.update"
    /\ Len(calls) = 4

ComparisonEmpty ==
    /\ comparison # <<>>
    /\ ~comparison[1].files.defined \/ Len(comparison[1].files.items) = 0

\* C9: on the compare path, when the comparison reports no changed file or no
\* file list, the run ends with a success report and exit status 0, and the
\* model is never called.
C9_EmptyComparisonShortCircuits ==
    /\ comparison # <<>> => urlDetails.type = "compare"
    /\ ComparisonEmpty =>
          /\ Exited
          /\ exitCode = 0
          /\ stderr = <<>>
          /\ stdout[Len(stdout)].line = "No file changes found"
          /\ "messages.create" \notin Apis
          /\ message = <<>>

C9_Witness ==
    /\ comparison # <<>>
    /\ ~comparison[1].files.defined
    /\ Exited
    /\ exitCode = 0

\* C10: updatePRDescription is called only in runs whose URL parsed as a pull
\* request; in a run whose URL parsed as a comparison nothing is ever written to
\* the host, whatever the fetch and the generation give.
C10_WriteOnlyOnPullRequest ==
    /\ "pulls.update" \in Apis => urlDetails.type = "pr"
    /\ urlDetails.type = "compare" =>
          /\ Apis \subseteq {"repos.compareCommitsWithBasehead", "messages.create"}
          /\ \A k \in DOMAIN host : host[k].body \in {HostAtStart[k].body, ExternalBody}
          /\ edits = <<>> => host = HostAtStart

C10_Witness ==
    /\ urlDetails.type = "compare"
    /\ generated.t = "object"
    /\ Exited
    /\ exitCode = 0

(***************************************************************************)
(* Properties of the generator (GenSpec)                                   *)
(***************************************************************************)
NonEmptyString(v) == v.t = "string" /\ Len(v.s) > 0

\* C7, as claimed: what generateTitleAndDescription returns has a title and a
\* description that are non-empty strings, so that pulls.update is never called
\* with a missing or empty body.
C7_AsClaimed ==
    /\ generated # Undefined =>
          /\ NonEmptyString(Get(generated, title))
          /\ NonEmptyString(Get(generated, description))
    /\ \A k \in 1..Len(calls) :
          calls[k].api = "pulls.update" => NonEmptyString(calls[k].params.body)

FirstIsText(m) == Len(m.content) > 0 /\ m.content[1].type = "text"

Braces(text, c) == {k \in 1..Len(text) : text[k] = c}

HasSpan(text) == \E i \in Braces(text, "{"), j \in Braces(text, "}") : i < j

TitleAndDescription(T, D) ==
    ObjectValue(<<[key |-> title, val |-> StringValue(T)],
                  [key |-> description, val |-> StringValue(D)]>>)

TitleAndDescriptionText(T, D) ==
    <<"{">> \o Key(title) \o <<Quote>> \o T \o <<Quote, ",">>
            \o Key(description) \o <<Quote>> \o D \o <<Quote, "}">>

StringTexts == {<<"a">>, <<>>, <<"}", "{">>}

\* C8: the candidate JSON is the first text block from its first '{' to its last
\* '}', and what is returned is its parse; an object {"title": T, "description":
\* D} inside prose without braces gives exactly {title: T, description: D}; a
\* first block that is no text, or a text without a '{' followed by a '}', makes
\* the generation fail and return nothing.
C8_ReplyExtraction ==
    message # <<>> =>
      LET m == message[1]
      IN  IF FirstIsText(m) /\ HasSpan(m.content[1].text)
          THEN LET text == m.content[1].text
                   span == Slice(text, SetMin(Braces(text, "{")),
                                 SetMax(Braces(text, "}")) + 1)
               IN  /\ IF JSONParse(span).ok
                      THEN generated = JSONParse(span).val
                      ELSE generated = Undefined /\ error = "SyntaxError"
                   /\ \A a \in Prose, b \in Prose, T \in StringTexts, D \in StringTexts :
                         text = a \o TitleAndDescriptionText(T, D) \o b =>
                            generated = TitleAndDescription(T, D)
          ELSE /\ generated = Undefined
               /\ error = IF FirstIsText(m)
                          THEN "Could not parse JSON response from Claude"
                          ELSE "Unexpected response format from Anthropic API"
               /\ pc \in {"catch", "exited"}
               /\ Exited => exitCode = 1

C8_Witness ==
    /\ message # <<>>
    /\ FirstIsText(message[1])
    /\ message[1].content[1].text =
          <<"H", "i", ":", "\n">> \o TitleAndDescriptionText(<<"a">>, <<"}", "{">>)
                                  \o <<"H", "i", ":", "\n">>
    /\ generated = TitleAndDescription(<<"a">>, <<"}", "{">>)
    /\ Exited
    /\ exitCode = 0

(***************************************************************************)
(* Properties of the remote calls (Spec)                                   *)
(***************************************************************************)
\* the calls of the pull request path, in the order of lines 108, 114, 191, 221
PullRequestCalls == <<"pulls.get", "pulls.listFiles", "messages.create", "pulls.update">>

ExitedZero == Exited /\ exitCode = 0

\* what the run holds once the k-th call of the pull request path has returned
Completed(k) ==
    /\ k >= 1 => pr # NoPr /\ pr.title = host[urlDetails.details].title
    /\ k >= 2 => \E n \in 1..Len(stdout) : stdout[n].line = "Found"
    /\ k >= 3 => message # <<>> /\ generated = parseReply(message[1]).value

\* C11: on the pull request path the calls are issued in the order pulls.get,
\* pulls.listFiles, messages.create, pulls.update; a call is issued only when
\* nothing is in flight, no error was raised and the calls before it have
\* returned, so that at most one request is ever in flight (on any path); a run
\* that exits with 0 issued each of the four calls once, and the body it sent
\* is the description the generation returned.
C11_CallOrder ==
    /\ [](/\ Len(inFlight) <= 1
          /\ inFlight # <<>> => pc = "await" /\ inFlight[1] = calls[Len(calls)])
    /\ [](urlDetails.type = "pr" =>
            /\ Len(calls) <= Len(PullRequestCalls)
            /\ \A k \in 1..Len(calls) : calls[k].api = PullRequestCalls[k]
            /\ error = "" => Completed(Len(calls) - Len(inFlight))
            /\ ExitedZero =>
                  /\ Len(calls) = Len(PullRequestCalls)
                  /\ \A k \in 1..2 : calls[k].params = urlDetails.details
                  /\ calls[3].params.context.currentBody = pr.body
                  /\ PullOf(calls[4].params) = urlDetails.details
                  /\ calls[4].params.body = Get(generated, description))
    /\ [][calls' # calls =>
            /\ inFlight = <<>>
            /\ error = ""
            /\ urlDetails.type = "pr" => Completed(Len(calls))
            /\ \E r \in {calls'[Len(calls')]} :
                  calls' = Append(calls, r) /\ inFlight' = <<r>>]_vars
    /\ [][inFlight' # inFlight /\ inFlight # <<>> => inFlight' = <<>>]_vars

C11_Witness ==
    /\ urlDetails.type = "pr"
    /\ ExitedZero
    /\ Len(calls) = 4
    /\ calls[4].params.body = StringValue(<<"b">>)
    /\ host[urlDetails.details].body = StringValue(<<"b">>)

\* pulls.update has returned
UpdateReturned ==
    /\ urlDetails.type = "pr"
    /\ Len(calls) = Len(PullRequestCalls)
    /\ inFlight = <<>>
    /\ error = ""

\* someone edited the body of the run's pull request after pulls.get was answered
\* and before pulls.update was
EditedBetween ==
    \E n \in 1..Len(edits) :
        /\ edits[n].pull = urlDetails.details
        /\ edits[n].answered \in 1..(Len(PullRequestCalls) - 1)

\* nobody edited the run's pull request after pulls.update was answered
NoEditSince ==
    \A n \in 1..Len(edits) :
        edits[n].pull = urlDetails.details => edits[n].answered < Len(PullRequestCalls)

\* C12, as claimed: when someone else edits the body of the pull request after
\* the run read it and before the run writes it, the write is issued all the
\* same, it can succeed, and once it has the body on the host is the generated
\* description, the edit is gone and the run exits with 0.
C12_AsClaimed ==
    /\ (urlDetails.type = "pr" /\ pc = "generated" /\ EditedBetween) =>
          ENABLED CallPullsUpdate
    /\ (UpdateReturned /\ EditedBetween /\ NoEditSince) =>
          /\ host[urlDetails.details].body = Get(generated, description)
          /\ host[urlDetails.details].body # ExternalBody
          /\ Exited => exitCode = 0

\* What holds of C12: the write is issued whatever is on the host, and when the
\* description it sends is a string, the body on the host is that string once
\* the write has returned.
LostUpdate ==
    /\ (urlDetails.type = "pr" /\ pc = "generated") => ENABLED CallPullsUpdate
    /\ (UpdateReturned /\ NoEditSince) =>
          /\ Get(generated, description).t = "string" =>
                host[urlDetails.details].body = Get(generated, description)
          /\ Get(generated, description).t # "string" =>
                host[urlDetails.details].body \in {pr.body, ExternalBody}
          /\ Exited => exitCode = 0

C12_Witness ==
    /\ UpdateReturned
    /\ EditedBetween
    /\ NoEditSince
    /\ pr.body # ExternalBody
    /\ host[urlDetails.details].body = StringValue(<<"b">>)
    /\ ExitedZero

\* the requests that change something on the host; the others only read
Mutations == {k \in 1..Len(calls) : calls[k].api = "pulls.update"}

Reads == {"pulls.get", "pulls.listFiles", "repos.compareCommitsWithBasehead"}

\* C13: of the requests a run sends to the host at most one is not a read: a
\* pulls.update that names the parsed owner, repo and number and carries a body
\* and nothing else; a step of the run changes nothing on the host but the body
\* of that pull request, when that update returns; no title on the host ever
\* changes, the generated title is only printed.
C13_WriteFrame ==
    /\ [](/\ Cardinality(Mutations) <= 1
          /\ Apis \subseteq Reads \cup {"messages.create", "pulls.update"}
          /\ \A k \in Mutations :
                /\ urlDetails.type = "pr"
                /\ DOMAIN calls[k].params = {"owner", "repo", "pull_number", "body"}
                /\ PullOf(calls[k].params) = urlDetails.details
                /\ \E n \in 1..Len(stdout) :
                      stdout[n] = Log("Suggested title", Get(generated, title))
          /\ \A p \in DOMAIN host : host[p].title = HostAtStart[p].title)
    /\ [][host' # host /\ edits' = edits =>
            /\ Awaiting("pulls.update")
            /\ inFlight' = <<>>
            /\ host' = [host EXCEPT ![urlDetails.details].body = inFlight[1].params.body]]_vars

C13_Witness ==
    /\ UpdateReturned
    /\ edits = <<>>
    /\ Get(generated, title) = StringValue(<<"a">>)
    /\ host[urlDetails.details] = [title |-> <<"T", "0">>, body |-> StringValue(<<"b">>)]
    /\ \A p \in DOMAIN host \ {urlDetails.details} : host[p] = HostAtStart[p]
    /\ ExitedZero

====
